---- MODULE Spec2Model ----
(***************************************************************************)
(* Model of yabsnap_wrapper.py: the npyscreen front-end that lists         *)
(* yabsnap snapshots, generates / saves / runs a rollback script and       *)
(* issues delete, create and create-recovery commands.                     *)
(*                                                                         *)
(* The external tool, the file system and the user are the environment:    *)
(* every subprocess outcome, every file write outcome and every answer is  *)
(* drawn from a small set.  One action models one whole handler.           *)
(***************************************************************************)
EXTENDS Integers, Sequences, FiniteSets, TLC

(***************************************************************************)
(* Bounds                                                                  *)
(***************************************************************************)
\* longest stdout (in lines) a list-json call produces in the model
MaxLen == 2
\* longest list of records the catalog is built from in SpecCatalog
MaxInput == 3
\* longest list of records the rows are built from in SpecFormat
MaxRows == 2

(***************************************************************************)
(* Values of the environment                                               *)
(***************************************************************************)
\* Python's None
None == "<None>"

\* 14-character timestamps as yabsnap prints them
T1 == "20240315143000"
T2 == "20231201080559"

Timestamps == {T1, T2}

\* more 14-character strings for format_timestamp, each with its characters:
\* valid dates, fields out of range, a letter or a space at every position
FormatTable ==
   <<
      <<"20240229235959", <<"2","0","2","4","0","2","2","9","2","3","5","9","5","9">>>>,
      <<"20000101000000", <<"2","0","0","0","0","1","0","1","0","0","0","0","0","0">>>>,
      <<"19991231120000", <<"1","9","9","9","1","2","3","1","1","2","0","0","0","0">>>>,
      <<"20240430061500", <<"2","0","2","4","0","4","3","0","0","6","1","5","0","0">>>>,
      <<"00010315143000", <<"0","0","0","1","0","3","1","5","1","4","3","0","0","0">>>>,
      <<"99991130000001", <<"9","9","9","9","1","1","3","0","0","0","0","0","0","1">>>>,
      <<"20240015143000", <<"2","0","2","4","0","0","1","5","1","4","3","0","0","0">>>>,
      <<"20241315143000", <<"2","0","2","4","1","3","1","5","1","4","3","0","0","0">>>>,
      <<"20240300143000", <<"2","0","2","4","0","3","0","0","1","4","3","0","0","0">>>>,
      <<"20240332143000", <<"2","0","2","4","0","3","3","2","1","4","3","0","0","0">>>>,
      <<"20240230143000", <<"2","0","2","4","0","2","3","0","1","4","3","0","0","0">>>>,
      <<"20230229143000", <<"2","0","2","3","0","2","2","9","1","4","3","0","0","0">>>>,
      <<"20240431143000", <<"2","0","2","4","0","4","3","1","1","4","3","0","0","0">>>>,
      <<"20240315243000", <<"2","0","2","4","0","3","1","5","2","4","3","0","0","0">>>>,
      <<"20240315146000", <<"2","0","2","4","0","3","1","5","1","4","6","0","0","0">>>>,
      <<"20240315143060", <<"2","0","2","4","0","3","1","5","1","4","3","0","6","0">>>>,
      <<"20240315143061", <<"2","0","2","4","0","3","1","5","1","4","3","0","6","1">>>>,
      <<"20240315143075", <<"2","0","2","4","0","3","1","5","1","4","3","0","7","5">>>>,
      <<"00000315143000", <<"0","0","0","0","0","3","1","5","1","4","3","0","0","0">>>>,
      <<"x0240315143000", <<"x","0","2","4","0","3","1","5","1","4","3","0","0","0">>>>,
      <<"2x240315143000", <<"2","x","2","4","0","3","1","5","1","4","3","0","0","0">>>>,
      <<"20x40315143000", <<"2","0","x","4","0","3","1","5","1","4","3","0","0","0">>>>,
      <<"202x0315143000", <<"2","0","2","x","0","3","1","5","1","4","3","0","0","0">>>>,
      <<"2024x315143000", <<"2","0","2","4","x","3","1","5","1","4","3","0","0","0">>>>,
      <<"20240x15143000", <<"2","0","2","4","0","x","1","5","1","4","3","0","0","0">>>>,
      <<"202403x5143000", <<"2","0","2","4","0","3","x","5","1","4","3","0","0","0">>>>,
      <<"2024031x143000", <<"2","0","2","4","0","3","1","x","1","4","3","0","0","0">>>>,
      <<"20240315x43000", <<"2","0","2","4","0","3","1","5","x","4","3","0","0","0">>>>,
      <<"202403151x3000", <<"2","0","2","4","0","3","1","5","1","x","3","0","0","0">>>>,
      <<"2024031514x000", <<"2","0","2","4","0","3","1","5","1","4","x","0","0","0">>>>,
      <<"20240315143x00", <<"2","0","2","4","0","3","1","5","1","4","3","x","0","0">>>>,
      <<"202403151430x0", <<"2","0","2","4","0","3","1","5","1","4","3","0","x","0">>>>,
      <<"2024031514300x", <<"2","0","2","4","0","3","1","5","1","4","3","0","0","x">>>>,
      <<" 0240305143000", <<" ","0","2","4","0","3","0","5","1","4","3","0","0","0">>>>,
      <<"2 240305143000", <<"2"," ","2","4","0","3","0","5","1","4","3","0","0","0">>>>,
      <<"20 40305143000", <<"2","0"," ","4","0","3","0","5","1","4","3","0","0","0">>>>,
      <<"202 0305143000", <<"2","0","2"," ","0","3","0","5","1","4","3","0","0","0">>>>,
      <<"2024 305143000", <<"2","0","2","4"," ","3","0","5","1","4","3","0","0","0">>>>,
      <<"20240 05143000", <<"2","0","2","4","0"," ","0","5","1","4","3","0","0","0">>>>,
      <<"202403 5143000", <<"2","0","2","4","0","3"," ","5","1","4","3","0","0","0">>>>,
      <<"2024030 143000", <<"2","0","2","4","0","3","0"," ","1","4","3","0","0","0">>>>,
      <<"20240305 43000", <<"2","0","2","4","0","3","0","5"," ","4","3","0","0","0">>>>,
      <<"202403051 3000", <<"2","0","2","4","0","3","0","5","1"," ","3","0","0","0">>>>,
      <<"2024030514 000", <<"2","0","2","4","0","3","0","5","1","4"," ","0","0","0">>>>,
      <<"20240305143 00", <<"2","0","2","4","0","3","0","5","1","4","3"," ","0","0">>>>,
      <<"202403051430 0", <<"2","0","2","4","0","3","0","5","1","4","3","0"," ","0">>>>,
      <<"2024030514300 ", <<"2","0","2","4","0","3","0","5","1","4","3","0","0"," ">>>>,
      <<"2024-03-151430", <<"2","0","2","4","-","0","3","-","1","5","1","4","3","0">>>>,
      <<"20240315T14300", <<"2","0","2","4","0","3","1","5","T","1","4","3","0","0">>>>,
      <<"abcdefghijklmn", <<"a","b","c","d","e","f","g","h","i","j","k","l","m","n">>>>,
      <<"              ", <<" "," "," "," "," "," "," "," "," "," "," "," "," "," ">>>>,
      <<"202403 0143000", <<"2","0","2","4","0","3"," ","0","1","4","3","0","0","0">>>>,
      <<"202402 9143000", <<"2","0","2","4","0","2"," ","9","1","4","3","0","0","0">>>>
   >>
FormatInputs == {FormatTable[i][1] : i \in DOMAIN FormatTable}
AllTimestamps == Timestamps \cup FormatInputs

\* the characters of each timestamp of the model (TLC strings are atomic)
Chars(timestamp) ==
    CASE timestamp = T1 -> <<"2","0","2","4","0","3","1","5","1","4","3","0","0","0">>
      [] timestamp = T2 -> <<"2","0","2","3","1","2","0","1","0","8","0","5","5","9">>
      [] OTHER -> FormatTable[CHOOSE i \in DOMAIN FormatTable : FormatTable[i][1] = timestamp][2]

Comments == {"a", "b"}
Sources == {"root"}

\* a parsed list-json object: {"file": {"timestamp": ..}, "comment": .., "source": ..}
AllRecords == [file : [timestamp : Timestamps], comment : Comments, source : Sources]

\* the objects list-json prints during a session of the model
Records == {r \in AllRecords : r.comment = "a"}

\* one line of list-json's stdout: a JSON object, or text that is not JSON
BadLine == [text |-> "not json"]
Lines == {[json |-> r] : r \in Records}

SeqsUpTo(S, n) == UNION {[1..k -> S] : k \in 0..n}

\* the stdouts of list-json: lines that all parse, or lines that parse up to
\* one that does not (json.loads raises there and no later line is read)
Stdouts ==
    SeqsUpTo(Lines, MaxLen)
    \cup {Append(s, BadLine) : s \in SeqsUpTo(Lines, MaxLen - 1)}

\* what a subprocess.run call can do: raise (the program is missing), or
\* return with an exit status, stdout and stderr
Raised(o) == o.exc # ""
ListOutcomes ==
    {[exc |-> "FileNotFoundError", returncode |-> 0, stdout |-> <<>>, stderr |-> ""]}
    \cup {[exc |-> "", returncode |-> 1, stdout |-> <<>>, stderr |-> "list failed"]}
    \cup {[exc |-> "", returncode |-> 0, stdout |-> s, stderr |-> ""] :
             s \in Stdouts}

Scripts == {"", "rollback T1", "rollback T2"}
\* rollback-gen prints the script of the timestamp it is given
ScriptOf(timestamp) == IF timestamp = T1 THEN "rollback T1" ELSE "rollback T2"
GenOutcomes(timestamp) ==
    {[exc |-> "FileNotFoundError", returncode |-> 0, stdout |-> "", stderr |-> ""],
     [exc |-> "", returncode |-> 1, stdout |-> "", stderr |-> "gen failed"],
     [exc |-> "", returncode |-> 1, stdout |-> "partial", stderr |-> "gen failed"],
     [exc |-> "", returncode |-> 0, stdout |-> "", stderr |-> ""],
     [exc |-> "", returncode |-> 0, stdout |-> ScriptOf(timestamp), stderr |-> ""]}

CmdOutcomes ==
    {[exc |-> "FileNotFoundError", returncode |-> 0, stdout |-> "", stderr |-> ""],
     [exc |-> "", returncode |-> 1, stdout |-> "", stderr |-> "cmd failed"],
     [exc |-> "", returncode |-> 0, stdout |-> "", stderr |-> ""]}

\* bash on the output file: stderr is not captured (it goes to the terminal)
ExecOutcomes ==
    {[exc |-> "", returncode |-> 0, stdout |-> "", stderr |-> ""],
     [exc |-> "", returncode |-> 1, stdout |-> "", stderr |-> "exec failed"]}

\* open(filename, 'w') + write: done, refused at open, or failed after the
\* truncation
WriteOutcomes == {"ok", "open_fails", "write_fails"}

\* the output file before the session: absent, or a script of an earlier run
NoFile == "<absent>"
OldFiles == {NoFile, "old script"}

(***************************************************************************)
(* Effects: what a handler did, in order                                   *)
(***************************************************************************)
\* a subprocess.run call with what came back: the exception it raised if any,
\* the exit status, the stdout and the stderr of the child
Run(cmd, o) ==
    [kind |-> "run", cmd |-> cmd, exc |-> o.exc, returncode |-> o.returncode,
     stdout |-> o.stdout, stderr |-> o.stderr]
Notify(title, msg) == [kind |-> "notify", title |-> title, msg |-> msg]
WriteFx(path, content, w) == [kind |-> "write", path |-> path, content |-> content, outcome |-> w]
YesNo(answer) == [kind |-> "yes_no", answer |-> answer]
\* bash on the file at path, with the content the file has at that moment
Exec(path, content, o) ==
    [kind |-> "exec", cmd |-> <<"bash", path>>, content |-> content,
     returncode |-> o.returncode, stderr |-> o.stderr]

(***************************************************************************)
(* Reading the log                                                         *)
(***************************************************************************)
IsList(e) == e.kind = "run" /\ e.cmd[1] = "yabsnap" /\ e.cmd[2] = "list-json"
IsGen(e) == e.kind = "run" /\ e.cmd[1] = "yabsnap" /\ e.cmd[2] = "rollback-gen"
IsMutating(e) == e.kind = "run" /\ e.cmd[1] = "sudo"
IsExec(e) == e.kind = "exec"
IsWrite(e) == e.kind = "write"
IsPrompt(e) == e.kind = "yes_no"
IsNotify(e) == e.kind = "notify"

\* a subprocess that ran and exited non-zero / a call that did not succeed
ExitedNonZero(e) == e.exc = "" /\ e.returncode # 0
CallFailed(e) == e.exc # "" \/ e.returncode # 0

Contains(msg, part) == \E i \in DOMAIN msg : msg[i] = part

KeyHandlers == {"on_delete", "on_create", "on_create_recovery"}

(***************************************************************************)
(* format_timestamp: strptime('%Y%m%d%H%M%S') then strftime('%d.%m.%y      *)
(* %H:%M')                                                                 *)
(***************************************************************************)
DigitChars == <<"0","1","2","3","4","5","6","7","8","9">>
IsDigit(c) == \E i \in 1..10 : DigitChars[i] = c
Digit(c) == (CHOOSE i \in 1..10 : DigitChars[i] = c) - 1
TwoDigits(n) == <<DigitChars[(n \div 10) + 1], DigitChars[(n % 10) + 1]>>

IsLeap(Y) == (Y % 4 = 0 /\ Y % 100 # 0) \/ Y % 400 = 0
DaysIn(m, Y) ==
    IF m = 2 THEN (IF IsLeap(Y) THEN 29 ELSE 28)
    ELSE IF m \in {4, 6, 9, 11} THEN 30 ELSE 31

\* the two characters of a field as strptime's regular expression takes them
\* when the whole 14-character string is to be consumed: two digits, or for
\* the day a space and a digit.  Every timestamp of the model has 14
\* characters; shorter and longer strings are not modelled.
Field(c, i) == IF IsDigit(c[i]) /\ IsDigit(c[i + 1]) THEN Digit(c[i]) * 10 + Digit(c[i + 1]) ELSE -1
DayField(c, i) ==
    IF c[i] = " " /\ IsDigit(c[i + 1]) THEN Digit(c[i + 1]) ELSE Field(c, i)

strptime(timestamp) ==
    LET c == Chars(timestamp)
        Y == IF \A i \in 1..4 : IsDigit(c[i])
             THEN Digit(c[1]) * 1000 + Digit(c[2]) * 100 + Digit(c[3]) * 10 + Digit(c[4])
             ELSE -1
        m == Field(c, 5)
        d == DayField(c, 7)
        H == Field(c, 9)
        M == Field(c, 11)
        S == Field(c, 13)
        \* the regular expression lets 60 and 61 through as seconds, and
        \* datetime then refuses them
        ok == /\ Y >= 1
              /\ m \in 1..12
              /\ d \in 1..DaysIn(m, Y)
              /\ H \in 0..23
              /\ M \in 0..59
              /\ S \in 0..59
    IN  [ok |-> ok, Y |-> Y, m |-> m, d |-> d, H |-> H, M |-> M, S |-> S]

\* [exc |-> "ValueError"] when strptime raises, else the display string
format_timestamp(timestamp) ==
    LET dt == strptime(timestamp)
    IN  IF ~dt.ok
        THEN [exc |-> "ValueError", value |-> <<>>]
        ELSE [exc |-> "",
              value |-> TwoDigits(dt.d) \o <<".">> \o TwoDigits(dt.m) \o <<".">>
                        \o TwoDigits(dt.Y % 100) \o <<" ">>
                        \o TwoDigits(dt.H) \o <<":">> \o TwoDigits(dt.M)]

(***************************************************************************)
(* The module-level functions                                              *)
(***************************************************************************)
\* json.loads of one line
json_loads(line) ==
    IF "json" \in DOMAIN line
    THEN [exc |-> "", value |-> line.json]
    ELSE [exc |-> "JSONDecodeError", value |-> None]

\* mutant: the error of a failed listing is reported without its stderr
get_snapshots_quiet(o) ==
    LET run == Run(<<"yabsnap", "list-json">>, o)
    IN  IF Raised(o) \/ o.returncode # 0
           \/ \E i \in 1..Len(o.stdout) : json_loads(o.stdout[i]).exc # ""
        THEN [ret |-> <<>>,
              fx |-> <<run, Notify("Error", <<"Error retrieving snapshot list:\n">>)>>]
        ELSE [ret |-> [i \in 1..Len(o.stdout) |-> json_loads(o.stdout[i]).value],
              fx |-> <<run>>]

\* every function returns [ret |-> its return value, fx |-> its effects]
get_snapshots(o) ==
    LET run == Run(<<"yabsnap", "list-json">>, o)
    IN  IF Raised(o)
        THEN [ret |-> <<>>,
              fx |-> <<run, Notify("Error", <<"An error occurred: ", o.exc>>)>>]
        ELSE IF o.returncode # 0
        THEN [ret |-> <<>>,
              fx |-> <<run, Notify("Error", <<"Error retrieving snapshot list:\n", o.stderr>>)>>]
        ELSE IF \E i \in 1..Len(o.stdout) : json_loads(o.stdout[i]).exc # ""
        THEN [ret |-> <<>>,
              fx |-> <<run, Notify("Error", <<"An error occurred: ", "JSONDecodeError">>)>>]
        ELSE [ret |-> [i \in 1..Len(o.stdout) |-> json_loads(o.stdout[i]).value],
              fx |-> <<run>>]

\* mutant: the exit status is not looked at
generate_rollback_script_unchecked(timestamp, o) ==
    LET run == Run(<<"yabsnap", "rollback-gen", timestamp>>, o)
    IN  IF Raised(o)
        THEN [ret |-> None,
              fx |-> <<run, Notify("Error", <<"An error occurred: ", o.exc>>)>>]
        ELSE [ret |-> o.stdout, fx |-> <<run>>]

generate_rollback_script(timestamp, o) ==
    LET run == Run(<<"yabsnap", "rollback-gen", timestamp>>, o)
    IN  IF Raised(o)
        THEN [ret |-> None,
              fx |-> <<run, Notify("Error", <<"An error occurred: ", o.exc>>)>>]
        ELSE IF o.returncode # 0
        THEN [ret |-> None,
              fx |-> <<run, Notify("Error", <<"Error generating rollback script:\n", o.stderr>>)>>]
        ELSE [ret |-> o.stdout, fx |-> <<run>>]

\* mutant: a file that exists is left as it is
Written_keep(old, script, w) ==
    CASE w = "ok" -> IF old = NoFile THEN script ELSE old
      [] w = "open_fails" -> old
      [] w = "write_fails" -> ""

\* the file after open(filename, 'w') and write(script) with outcome w
Written(old, script, w) ==
    CASE w = "ok" -> script
      [] w = "open_fails" -> old
      [] w = "write_fails" -> ""

save_script_to_file(script, filename, w) ==
    IF w = "ok"
    THEN [ret |-> None,
          fx |-> <<WriteFx(filename, script, w),
                   Notify("Success", <<"Script saved successfully to ", filename>>)>>]
    ELSE [ret |-> None,
          fx |-> <<WriteFx(filename, script, w),
                   Notify("Error", <<"An error occurred while saving the file: ", "OSError">>)>>]

\* str(CalledProcessError): the command and the exit status, no stderr
CalledProcessErrorText == "Command '['bash', filename]' returned non-zero exit status 1."

execute_script(filename, content, o) ==
    IF o.returncode = 0
    THEN [ret |-> None,
          fx |-> <<Exec(filename, content, o),
                   Notify("Success", <<"Script ", filename, " executed successfully.">>)>>]
    ELSE [ret |-> None,
          fx |-> <<Exec(filename, content, o),
                   Notify("Error", <<"An error occurred during script execution: ",
                                     CalledProcessErrorText>>)>>]

DryRunArg(dry_run) == IF dry_run THEN <<"--dry-run">> ELSE <<>>
DryRunText(dry_run) == IF dry_run THEN <<" (dry run)">> ELSE <<>>

\* the notifications of the three mutating commands, which differ in text only
Outcome(o, errText, okText, dry_run) ==
    IF Raised(o)
    THEN Notify("Error", <<"An error occurred: ", o.exc>>)
    ELSE IF o.returncode # 0
    THEN Notify("Error", <<errText, o.stderr>>)
    ELSE Notify("Success", <<okText>> \o DryRunText(dry_run))

\* mutant: the dry-run flag is not forwarded
delete_snapshot_for_real(timestamp, dry_run, o) ==
    [ret |-> None,
     fx |-> <<Run(<<"sudo", "yabsnap", "delete", timestamp>>, o),
              Outcome(o, "Error deleting snapshot:\n", "Snapshot deleted successfully", dry_run)>>]

delete_snapshot(timestamp, dry_run, o) ==
    [ret |-> None,
     fx |-> <<Run(<<"sudo", "yabsnap", "delete", timestamp>> \o DryRunArg(dry_run), o),
              Outcome(o, "Error deleting snapshot:\n", "Snapshot deleted successfully", dry_run)>>]

create_snapshot(dry_run, o) ==
    [ret |-> None,
     fx |-> <<Run(<<"sudo", "yabsnap", "create">> \o DryRunArg(dry_run), o),
              Outcome(o, "Error creating snapshot:\n", "Snapshot created successfully", dry_run)>>]

create_recovery_snapshot(dry_run, o) ==
    [ret |-> None,
     fx |-> <<Run(<<"sudo", "yabsnap", "create-recovery">> \o DryRunArg(dry_run), o),
              Outcome(o, "Error creating recovery snapshot:\n",
                      "Recovery snapshot created successfully", dry_run)>>]

(***************************************************************************)
(* Python dicts keep insertion order: a dict is a sequence of [key, value] *)
(* with distinct keys                                                      *)
(***************************************************************************)
DictHas(d, k) == \E i \in 1..Len(d) : d[i].key = k
DictGet(d, k) == d[CHOOSE i \in 1..Len(d) : d[i].key = k].value
\* mutant: a present key keeps its value (dict.setdefault)
DictSetDefault(d, k, v) ==
    IF DictHas(d, k) THEN d ELSE Append(d, [key |-> k, value |-> v])

\* d[k] = v: a present key keeps its place and takes the new value
DictSet(d, k, v) ==
    IF DictHas(d, k)
    THEN [i \in 1..Len(d) |-> IF d[i].key = k THEN [key |-> k, value |-> v] ELSE d[i]]
    ELSE Append(d, [key |-> k, value |-> v])
DictKeys(d) == [i \in 1..Len(d) |-> d[i].key]

\* {snapshot['file']['timestamp']: snapshot for snapshot in snapshots}
RECURSIVE UniqueSnapshots(_)
UniqueSnapshots(snaps) ==
    IF snaps = <<>>
    THEN <<>>
    ELSE LET n == Len(snaps)
             snapshot == snaps[n]
         IN  DictSet(UniqueSnapshots(SubSeq(snaps, 1, n - 1)), snapshot.file.timestamp, snapshot)

\* format_timestamp of every timestamp of the model, computed once
Formatted == [t \in AllTimestamps |-> format_timestamp(t)]

\* one row of the list: f"{readable_time} - {comment} (source: {source})"
Row(readable_time, comment, source) ==
    [readable_time |-> readable_time, comment |-> comment, source |-> source]

\* mutant: the rows are built in the reverse of the order of timestamp_list
FormattedSnapshots_reversed(tl, us) ==
    IF \E i \in 1..Len(tl) : Formatted[tl[i]].exc # ""
    THEN [exc |-> "ValueError", value |-> <<>>]
    ELSE [exc |-> "",
          value |-> [i \in 1..Len(tl) |->
                        Row(Formatted[tl[Len(tl) + 1 - i]].value,
                            DictGet(us, tl[Len(tl) + 1 - i]).comment,
                            DictGet(us, tl[Len(tl) + 1 - i]).source)]]

\* the rows update_snapshot_list builds; exc is set when format_timestamp raises
FormattedSnapshots(tl, us) ==
    IF \E i \in 1..Len(tl) : Formatted[tl[i]].exc # ""
    THEN [exc |-> "ValueError", value |-> <<>>]
    ELSE [exc |-> "",
          value |-> [i \in 1..Len(tl) |->
                        Row(Formatted[tl[i]].value,
                            DictGet(us, tl[i]).comment,
                            DictGet(us, tl[i]).source)]]

\* mutant: a line that does not parse is skipped and the lines that parsed are
\* returned with a warning
Listed_partial ==
    [l \in ListOutcomes |->
        IF Raised(l) \/ l.returncode # 0
        THEN get_snapshots(l)
        ELSE LET good == SelectSeq(l.stdout, LAMBDA line : json_loads(line).exc = "")
             IN  [ret |-> [i \in 1..Len(good) |-> json_loads(good[i]).value],
                  fx |-> IF Len(good) = Len(l.stdout)
                         THEN <<Run(<<"yabsnap", "list-json">>, l)>>
                         ELSE <<Run(<<"yabsnap", "list-json">>, l),
                                Notify("Error", <<"An error occurred: ", "JSONDecodeError">>)>>]]

\* get_snapshots on every outcome of list-json, computed once
Listed == [l \in ListOutcomes |-> get_snapshots(l)]

(***************************************************************************)
(* State                                                                   *)
(***************************************************************************)
VARIABLES
    pc,                \* "main", "constructed", "Listing", "Terminated", "Crashed"
    args,              \* [output, dry_run], parsed once
    app_snapshots,     \* SnapshotSelectorApp.snapshots
    snapshots,         \* SnapshotSelectorForm.snapshots
    unique_snapshots,  \* SnapshotSelectorForm.unique_snapshots
    timestamp_list,    \* SnapshotSelectorForm.timestamp_list
    values,            \* snapshot_list.values, the rows on screen
    value,             \* snapshot_list.value[0], the highlighted index
    file,              \* the content of the file at args.output
    handler,           \* the handler that ran last
    log,               \* the effects of that handler, in order (of __init__
                       \* and onStart together: no event comes between them)
    confirms           \* how many times on_ok has run

vars == <<pc, args, app_snapshots, snapshots, unique_snapshots, timestamp_list,
          values, value, file, handler, log, confirms>>

formVars == <<snapshots, unique_snapshots, timestamp_list, values, value>>

\* the process has started and parsed its arguments
Init ==
    /\ pc = "main"
    /\ args \in [output : {"rollback.sh"}, dry_run : BOOLEAN]
    /\ app_snapshots = <<>>
    /\ snapshots = <<>>
    /\ unique_snapshots = <<>>
    /\ timestamp_list = <<>>
    /\ values = <<>>
    /\ value = 0
    /\ file \in OldFiles
    /\ handler = "main"
    /\ log = <<>>
    /\ confirms = 0

(***************************************************************************)
(* SnapshotSelectorApp                                                     *)
(***************************************************************************)
\* SnapshotSelectorApp.__init__: the listing at startup
App_init ==
    /\ pc = "main"
    /\ \E l \in ListOutcomes :
          LET g == Listed[l]
          IN  /\ app_snapshots' = g.ret
              /\ log' = g.fx
    /\ pc' = "constructed"
    /\ handler' = "__init__"
    /\ UNCHANGED <<args, formVars, file, confirms>>

\* mutant: the form is added whatever the listing returned
onStart_always ==
    /\ pc = "constructed"
    /\ handler' = "onStart"
    /\ LET us == UniqueSnapshots(app_snapshots)
           tl == DictKeys(us)
       IN  /\ snapshots' = app_snapshots
           /\ unique_snapshots' = us
           /\ timestamp_list' = tl
           /\ value' = 0
           /\ values' = FormattedSnapshots(tl, us).value
           /\ pc' = "Listing"
           /\ log' = log
    /\ UNCHANGED <<args, app_snapshots, file, confirms>>

\* onStart, and SnapshotSelectorForm.create when the form is added
onStart ==
    /\ pc = "constructed"
    /\ handler' = "onStart"
    /\ IF app_snapshots = <<>>
       THEN /\ log' = Append(log, Notify("Info", <<"No snapshots available for rollback.">>))
            /\ pc' = "Terminated"
            /\ UNCHANGED formVars
       ELSE LET us == UniqueSnapshots(app_snapshots)
                tl == DictKeys(us)
                rows == FormattedSnapshots(tl, us)
            IN  /\ snapshots' = app_snapshots
                /\ unique_snapshots' = us
                /\ timestamp_list' = tl
                /\ value' = 0
                /\ values' = rows.value
                /\ pc' = IF rows.exc # "" THEN "Crashed" ELSE "Listing"
                /\ log' = log
    /\ UNCHANGED <<args, app_snapshots, file, confirms>>

(***************************************************************************)
(* SnapshotSelectorForm                                                    *)
(***************************************************************************)
\* the TitleSelectOne widget: the user highlights one of the rows on screen
Select ==
    /\ pc = "Listing"
    /\ \E i \in 0..(Len(values) - 1) :
          /\ i # value
          /\ value' = i
    /\ handler' = "select"
    /\ log' = <<>>
    /\ UNCHANGED <<pc, args, app_snapshots, snapshots, unique_snapshots,
                   timestamp_list, values, file, confirms>>

\* mutant: the refresh puts the highlight back on the first row
Refresh_reset(name, cmd, l) ==
    LET g == Listed[l]
    IN  /\ handler' = name
        /\ snapshots' = g.ret
        /\ log' = cmd.fx \o g.fx
        /\ LET rows == FormattedSnapshots(timestamp_list, unique_snapshots)
           IN  /\ values' = rows.value
               /\ pc' = IF rows.exc # "" THEN "Crashed" ELSE pc
        /\ value' = 0
        /\ UNCHANGED <<args, app_snapshots, unique_snapshots, timestamp_list,
                       file, confirms>>

\* the part the three key handlers share: self.snapshots = get_snapshots();
\* self.update_snapshot_list()
Refresh(name, cmd, l) ==
    LET g == Listed[l]
    IN  /\ handler' = name
        /\ snapshots' = g.ret
        /\ log' = cmd.fx \o g.fx
        /\ LET rows == FormattedSnapshots(timestamp_list, unique_snapshots)
           IN  /\ values' = rows.value
               /\ pc' = IF rows.exc # "" THEN "Crashed" ELSE pc
        /\ UNCHANGED <<args, app_snapshots, unique_snapshots, timestamp_list,
                       value, file, confirms>>

\* mutant: the refresh rebuilds the catalog from whatever get_snapshots returned
on_delete_rebuild ==
    /\ pc = "Listing"
    /\ \E o \in CmdOutcomes, l \in ListOutcomes :
          LET selected_timestamp == timestamp_list[value + 1]
              cmd == delete_snapshot(selected_timestamp, args.dry_run, o)
              g == Listed[l]
              us == UniqueSnapshots(g.ret)
          IN  /\ handler' = "on_delete"
              /\ snapshots' = g.ret
              /\ unique_snapshots' = us
              /\ timestamp_list' = DictKeys(us)
              /\ values' = FormattedSnapshots(DictKeys(us), us).value
              /\ value' = 0
              /\ pc' = IF g.ret = <<>> THEN "Terminated" ELSE pc
              /\ log' = cmd.fx \o g.fx
              /\ UNCHANGED <<args, app_snapshots, file, confirms>>

on_delete ==
    /\ pc = "Listing"
    /\ \E o \in CmdOutcomes, l \in ListOutcomes :
          LET selected_index == value
              selected_timestamp == timestamp_list[selected_index + 1]
          IN  Refresh("on_delete", delete_snapshot(selected_timestamp, args.dry_run, o), l)

\* mutant: no refresh after a create that failed
on_create_skip ==
    /\ pc = "Listing"
    /\ \E o \in CmdOutcomes, l \in ListOutcomes :
          IF Raised(o) \/ o.returncode # 0
          THEN /\ handler' = "on_create"
               /\ log' = create_snapshot(args.dry_run, o).fx
               /\ UNCHANGED <<pc, args, app_snapshots, formVars, file, confirms>>
          ELSE Refresh("on_create", create_snapshot(args.dry_run, o), l)

on_create ==
    /\ pc = "Listing"
    /\ \E o \in CmdOutcomes, l \in ListOutcomes :
          Refresh("on_create", create_snapshot(args.dry_run, o), l)

on_create_recovery ==
    /\ pc = "Listing"
    /\ \E o \in CmdOutcomes, l \in ListOutcomes :
          Refresh("on_create_recovery", create_recovery_snapshot(args.dry_run, o), l)

\* handle_keys with the Esc key
on_esc ==
    /\ pc = "Listing"
    /\ pc' = "Terminated"
    /\ handler' = "handle_keys"
    /\ log' = <<>>
    /\ UNCHANGED <<args, app_snapshots, formVars, file, confirms>>

\* mutant: Cancel refreshes the listing before it leaves
on_cancel_refresh ==
    /\ pc = "Listing"
    /\ pc' = "Terminated"
    /\ handler' = "on_cancel"
    /\ \E l \in ListOutcomes :
          /\ snapshots' = Listed[l].ret
          /\ log' = Listed[l].fx
    /\ UNCHANGED <<args, app_snapshots, unique_snapshots, timestamp_list, values,
                   value, file, confirms>>

on_cancel ==
    /\ pc = "Listing"
    /\ pc' = "Terminated"
    /\ handler' = "on_cancel"
    /\ log' = <<>>
    /\ UNCHANGED <<args, app_snapshots, formVars, file, confirms>>

\* mutant: only None counts as no script
Truthy_notnone(x) == x # None

\* Python truthiness of generate_rollback_script's result
Truthy(x) == x # None /\ x # ""

\* bash on a missing file cannot exit 0
ExecOutcomesOn(content) ==
    IF content = NoFile THEN {e \in ExecOutcomes : e.returncode # 0} ELSE ExecOutcomes

\* mutant: the session ends only when a script was generated
on_ok_stay ==
    /\ pc = "Listing"
    /\ \E w \in WriteOutcomes, answer \in BOOLEAN :
          LET selected_index == value
              selected_timestamp == timestamp_list[selected_index + 1]
          IN  \E o \in GenOutcomes(selected_timestamp) :
                LET gen == generate_rollback_script(selected_timestamp, o)
                    rollback_script == gen.ret
                    saved == save_script_to_file(rollback_script, args.output, w)
                    after == Written(file, rollback_script, w)
                IN  IF Truthy(rollback_script)
                    THEN /\ file' = after
                         /\ IF answer
                            THEN \E e \in ExecOutcomesOn(after) :
                                    log' = gen.fx \o saved.fx \o <<YesNo(answer)>>
                                           \o execute_script(args.output, after, e).fx
                            ELSE log' = gen.fx \o saved.fx \o <<YesNo(answer)>>
                    ELSE /\ file' = file
                         /\ log' = gen.fx
    /\ pc' = IF \E i \in DOMAIN log' : IsWrite(log'[i]) THEN "Terminated" ELSE pc
    /\ handler' = "on_ok"
    /\ confirms' = confirms + 1
    /\ UNCHANGED <<args, app_snapshots, formVars>>

on_ok ==
    /\ pc = "Listing"
    /\ \E w \in WriteOutcomes, answer \in BOOLEAN :
          LET selected_index == value
              selected_timestamp == timestamp_list[selected_index + 1]
          IN  \E o \in GenOutcomes(selected_timestamp) :
                LET gen == generate_rollback_script(selected_timestamp, o)
                    rollback_script == gen.ret
                    saved == save_script_to_file(rollback_script, args.output, w)
                    after == Written(file, rollback_script, w)
                IN  IF Truthy(rollback_script)
                    THEN /\ file' = after
                         /\ IF answer
                            THEN \E e \in ExecOutcomesOn(after) :
                                    log' = gen.fx \o saved.fx \o <<YesNo(answer)>>
                                           \o execute_script(args.output, after, e).fx
                            ELSE log' = gen.fx \o saved.fx \o <<YesNo(answer)>>
                    ELSE /\ file' = file
                         /\ log' = gen.fx
    /\ pc' = "Terminated"
    /\ handler' = "on_ok"
    /\ confirms' = confirms + 1
    /\ UNCHANGED <<args, app_snapshots, formVars>>

Next ==
    \/ App_init
    \/ onStart
    \/ Select
    \/ on_delete
    \/ on_create
    \/ on_create_recovery
    \/ on_esc
    \/ on_cancel
    \/ on_ok

Spec == Init /\ [][Next]_vars

(***************************************************************************)
(* The catalog alone: create() on any list of records, repeated timestamps *)
(* and differing comments included                                         *)
(***************************************************************************)
InitCatalog ==
    /\ pc = "constructed"
    /\ args = [output |-> "rollback.sh", dry_run |-> FALSE]
    /\ app_snapshots \in SeqsUpTo(AllRecords, MaxInput)
    /\ snapshots = <<>>
    /\ unique_snapshots = <<>>
    /\ timestamp_list = <<>>
    /\ values = <<>>
    /\ value = 0
    /\ file = NoFile
    /\ handler = "__init__"
    /\ log = <<>>
    /\ confirms = 0

SpecCatalog == InitCatalog /\ [][onStart]_vars

(***************************************************************************)
(* The rows alone: create() and update_snapshot_list on records whose      *)
(* timestamps are any of the 14-character strings of FormatTable           *)
(***************************************************************************)
FormatRecords == [file : [timestamp : AllTimestamps], comment : {"a"}, source : Sources]

InitFormat ==
    /\ pc = "constructed"
    /\ args = [output |-> "rollback.sh", dry_run |-> FALSE]
    /\ app_snapshots \in SeqsUpTo(FormatRecords, MaxRows)
    /\ snapshots = <<>>
    /\ unique_snapshots = <<>>
    /\ timestamp_list = <<>>
    /\ values = <<>>
    /\ value = 0
    /\ file = NoFile
    /\ handler = "__init__"
    /\ log = <<>>
    /\ confirms = 0

SpecFormat == InitFormat /\ [][onStart]_vars

(***************************************************************************)
(* The handlers step by step: subprocess.run starts a child and waits for  *)
(* it to exit.  A step runs a handler from one wait to the next; pc names  *)
(* the child the handler is waiting for.                                   *)
(***************************************************************************)
\* a child that was started and has not exited yet
Started(cmd) == [kind |-> "started", cmd |-> cmd]
Front(s) == SubSeq(s, 1, Len(s) - 1)
AnyOutcome == CHOOSE o \in CmdOutcomes : TRUE

\* the module-level function a key handler calls first
CommandOf(name, o) ==
    CASE name = "on_delete" -> delete_snapshot(timestamp_list[value + 1], args.dry_run, o)
      [] name = "on_create" -> create_snapshot(args.dry_run, o)
      [] name = "on_create_recovery" -> create_recovery_snapshot(args.dry_run, o)

\* SnapshotSelectorApp.__init__ up to the wait in get_snapshots
App_init_run ==
    /\ pc = "main"
    /\ pc' = "wait list-json at startup"
    /\ handler' = "__init__"
    /\ log' = <<Started(<<"yabsnap", "list-json">>)>>
    /\ UNCHANGED <<args, app_snapshots, formVars, file, confirms>>

\* list-json exits and __init__ returns
App_init_exit ==
    /\ pc = "wait list-json at startup"
    /\ \E l \in ListOutcomes :
          /\ app_snapshots' = Listed[l].ret
          /\ log' = Listed[l].fx
    /\ pc' = "constructed"
    /\ UNCHANGED <<args, formVars, file, handler, confirms>>

\* mutant: the refresh listing is started together with the command, without
\* waiting for the command to exit
key_run_async(name) ==
    /\ pc = "Listing"
    /\ pc' = "wait command"
    /\ handler' = name
    /\ log' = <<Started(CommandOf(name, AnyOutcome).fx[1].cmd),
                Started(<<"yabsnap", "list-json">>)>>
    /\ UNCHANGED <<args, app_snapshots, formVars, file, confirms>>

\* on_delete, on_create, on_create_recovery up to the wait in the command
key_run(name) ==
    /\ pc = "Listing"
    /\ pc' = "wait command"
    /\ handler' = name
    /\ log' = <<Started(CommandOf(name, AnyOutcome).fx[1].cmd)>>
    /\ UNCHANGED <<args, app_snapshots, formVars, file, confirms>>

\* the command exits, its result is shown, and get_snapshots starts list-json
command_exit ==
    /\ pc = "wait command"
    /\ \E o \in CmdOutcomes :
          log' = CommandOf(handler, o).fx \o <<Started(<<"yabsnap", "list-json">>)>>
    /\ pc' = "wait list-json"
    /\ UNCHANGED <<args, app_snapshots, formVars, file, handler, confirms>>

\* list-json exits; self.snapshots is assigned and the rows are redrawn
refresh_exit ==
    /\ pc = "wait list-json"
    /\ \E l \in ListOutcomes :
          /\ snapshots' = Listed[l].ret
          /\ log' = SubSeq(log, 1, 2) \o Listed[l].fx
    /\ LET rows == FormattedSnapshots(timestamp_list, unique_snapshots)
       IN  /\ values' = rows.value
           /\ pc' = IF rows.exc # "" THEN "Crashed" ELSE "Listing"
    /\ UNCHANGED <<args, app_snapshots, unique_snapshots, timestamp_list, value,
                   file, handler, confirms>>

\* on_ok up to the wait in generate_rollback_script
on_ok_run ==
    /\ pc = "Listing"
    /\ pc' = "wait rollback-gen"
    /\ handler' = "on_ok"
    /\ log' = <<Started(<<"yabsnap", "rollback-gen", timestamp_list[value + 1]>>)>>
    /\ confirms' = confirms + 1
    /\ UNCHANGED <<args, app_snapshots, formVars, file>>

\* rollback-gen exits; the script is saved, the question asked, and bash
\* started on a yes
generate_exit ==
    /\ pc = "wait rollback-gen"
    /\ \E w \in WriteOutcomes, answer \in BOOLEAN :
          LET selected_timestamp == timestamp_list[value + 1]
          IN  \E o \in GenOutcomes(selected_timestamp) :
                LET gen == generate_rollback_script(selected_timestamp, o)
                    rollback_script == gen.ret
                    saved == save_script_to_file(rollback_script, args.output, w)
                IN  IF Truthy(rollback_script)
                    THEN /\ file' = Written(file, rollback_script, w)
                         /\ IF answer
                            THEN /\ log' = gen.fx \o saved.fx \o <<YesNo(answer)>>
                                           \o <<Started(<<"bash", args.output>>)>>
                                 /\ pc' = "wait bash"
                            ELSE /\ log' = gen.fx \o saved.fx \o <<YesNo(answer)>>
                                 /\ pc' = "Terminated"
                    ELSE /\ file' = file
                         /\ log' = gen.fx
                         /\ pc' = "Terminated"
    /\ UNCHANGED <<args, app_snapshots, formVars, handler, confirms>>

\* bash exits and on_ok returns
execute_exit ==
    /\ pc = "wait bash"
    /\ \E e \in ExecOutcomesOn(file) :
          log' = Front(log) \o execute_script(args.output, file, e).fx
    /\ pc' = "Terminated"
    /\ UNCHANGED <<args, app_snapshots, formVars, file, handler, confirms>>

NextSteps ==
    \/ App_init_run
    \/ App_init_exit
    \/ onStart
    \/ Select
    \/ \E name \in KeyHandlers : key_run(name)
    \/ command_exit
    \/ refresh_exit
    \/ on_esc
    \/ on_cancel
    \/ on_ok_run
    \/ generate_exit
    \/ execute_exit

SpecSteps == Init /\ [][NextSteps]_vars

Indices(P(_)) == {i \in DOMAIN log : P(log[i])}

\* ---------------------------------------------------------------------------
\* C1: in a Confirm handling (on_ok), the script is executed only if the write
\* of that exact script to the output path succeeded before and the user
\* answered yes before; after a failed write there is no execution.
\* The code runs the prompt and the execution whatever the write did.
C1_ExecOnlyAfterSavedAndYes ==
    handler = "on_ok" =>
        \A i \in Indices(IsExec) :
            /\ \E j \in Indices(IsWrite) :
                  /\ j < i
                  /\ log[j].outcome = "ok"
                  /\ log[j].path = log[i].cmd[2]
                  /\ log[j].content = log[i].content
            /\ \E k \in Indices(IsPrompt) : k < i /\ log[k].answer

\* ---------------------------------------------------------------------------
\* C2: when rollback-gen fails (non-zero exit, or the call raises), on_ok
\* writes nothing, asks nothing and executes nothing, and the output file is
\* what it was.
C2_GenFailureShortCircuits ==
    [][(handler' = "on_ok" /\ CallFailed(log'[1]))
          => /\ file' = file
             /\ \A i \in DOMAIN log' : ~IsWrite(log'[i]) /\ ~IsPrompt(log'[i]) /\ ~IsExec(log'[i])]_vars

C2_Witness ==
    /\ handler = "on_ok"
    /\ IsGen(log[1])
    /\ ExitedNonZero(log[1])
    /\ pc = "Terminated"

\* ---------------------------------------------------------------------------
\* C3: the catalog built from a list of records has one entry per distinct
\* timestamp, in the order of the first appearance of each timestamp, and
\* the record of each timestamp is
\*   (as claimed)  the first record bearing it,
\*   (as amended)  the last record bearing it: the dict comprehension
\*                 overwrites the value of a key that is already present.
TimestampAt(snaps, i) == snaps[i].file.timestamp
StampsOf(snaps) == {TimestampAt(snaps, i) : i \in DOMAIN snaps}
FirstAt(snaps, t) ==
    CHOOSE i \in DOMAIN snaps :
        TimestampAt(snaps, i) = t /\ \A j \in 1..(i - 1) : TimestampAt(snaps, j) # t
LastAt(snaps, t) ==
    CHOOSE i \in DOMAIN snaps :
        TimestampAt(snaps, i) = t /\ \A j \in (i + 1)..Len(snaps) : TimestampAt(snaps, j) # t

\* one entry per distinct timestamp, ordered by first appearance
C3_KeysByFirstAppearance ==
    /\ {timestamp_list[i] : i \in DOMAIN timestamp_list} = StampsOf(snapshots)
    /\ Len(timestamp_list) = Cardinality(StampsOf(snapshots))
    /\ DictKeys(unique_snapshots) = timestamp_list
    /\ \A i, j \in DOMAIN timestamp_list :
          i < j => FirstAt(snapshots, timestamp_list[i]) < FirstAt(snapshots, timestamp_list[j])

\* C3 as claimed: one entry per distinct timestamp, ordered by first
\* appearance, holding the first record that bears the timestamp
C3_FirstRecordWins ==
    pc = "Listing" =>
        /\ C3_KeysByFirstAppearance
        /\ \A t \in StampsOf(snapshots) :
              DictGet(unique_snapshots, t) = snapshots[FirstAt(snapshots, t)]

\* C3 as amended: one entry per distinct timestamp, ordered by first
\* appearance, holding the last record that bears the timestamp
C3_LastRecordWins ==
    pc = "Listing" =>
        /\ C3_KeysByFirstAppearance
        /\ \A t \in StampsOf(snapshots) :
              DictGet(unique_snapshots, t) = snapshots[LastAt(snapshots, t)]

\* the shape of [(T1,a),(T2,b),(T1,c)]: a timestamp repeated around another
\* one, with a different comment
C3_Witness ==
    /\ pc = "Listing"
    /\ Len(snapshots) = 3
    /\ TimestampAt(snapshots, 1) = TimestampAt(snapshots, 3)
    /\ TimestampAt(snapshots, 1) # TimestampAt(snapshots, 2)
    /\ snapshots[1].comment # snapshots[3].comment
    /\ timestamp_list = <<TimestampAt(snapshots, 1), TimestampAt(snapshots, 2)>>

\* the list-json call of log l returned records / did not
ListingOk(l) ==
    \E i \in DOMAIN l :
        /\ IsList(l[i])
        /\ ~CallFailed(l[i])
        /\ (i = Len(l) \/ ~IsNotify(l[i + 1]))
ListingFailed(l) ==
    \E i \in DOMAIN l :
        /\ IsList(l[i])
        /\ (CallFailed(l[i]) \/ (i < Len(l) /\ IsNotify(l[i + 1])))

\* the catalog create() would build from the records snaps
CatalogOf(snaps) ==
    LET us == UniqueSnapshots(snaps)
    IN  [unique_snapshots |-> us,
         timestamp_list |-> DictKeys(us),
         values |-> FormattedSnapshots(DictKeys(us), us).value]
Catalog ==
    [unique_snapshots |-> unique_snapshots, timestamp_list |-> timestamp_list, values |-> values]

\* ---------------------------------------------------------------------------
\* C4: after a delete, create or create-recovery whose listing call succeeded,
\* the catalog on screen and used for selection is the catalog built from the
\* records that call returned.
\* The code stores the records in self.snapshots and rebuilds nothing.
C4_CatalogReplacedAfterAction ==
    (handler \in KeyHandlers /\ ListingOk(log)) => Catalog = CatalogOf(snapshots)

\* ---------------------------------------------------------------------------
\* C5: every delete, create and create-recovery, failed or not, is followed in
\* the same handler by exactly one list-json call, made after the command
\* returned.
C5_OneListingAfterAction ==
    handler \in KeyHandlers =>
        /\ Cardinality(Indices(IsMutating)) = 1
        /\ Cardinality(Indices(IsList)) = 1
        /\ \A m \in Indices(IsMutating), l \in Indices(IsList) : m < l

C5_Witness ==
    /\ handler = "on_create"
    /\ IsMutating(log[1])
    /\ ExitedNonZero(log[1])
    /\ IsList(log[3])

\* ---------------------------------------------------------------------------
\* C6: when the list-json call of the refresh after a delete, create or
\* create-recovery fails, the timestamps, their records and the rows on
\* screen stay what they were, and are not emptied.
C6_FailedRefreshKeepsCatalog ==
    [][(handler' \in KeyHandlers /\ ListingFailed(log'))
          => /\ timestamp_list' = timestamp_list
             /\ unique_snapshots' = unique_snapshots
             /\ values' = values
             /\ timestamp_list' # <<>>
             /\ values' # <<>>]_vars

C6_Witness ==
    /\ handler = "on_delete"
    /\ ListingFailed(log)
    /\ snapshots = <<>>
    /\ Len(timestamp_list) = 2
    /\ Len(values) = 2

\* ---------------------------------------------------------------------------
\* C7: delete, create and create-recovery carry --dry-run exactly when the
\* session's dry-run flag is set, their success notification ends with
\* " (dry run)" exactly when it is set, and the flag never changes.
C7_DryRunState ==
    handler \in KeyHandlers =>
        /\ IsMutating(log[1])
        /\ Contains(log[1].cmd, "--dry-run") <=> args.dry_run
        /\ ~CallFailed(log[1]) =>
              /\ IsNotify(log[2])
              /\ log[2].title = "Success"
              /\ (log[2].msg[Len(log[2].msg)] = " (dry run)") <=> args.dry_run

\* C7: the dry-run flag is forwarded and reported in every key handler, and
\* no step changes it
C7_DryRunForwarded == []C7_DryRunState /\ [][args' = args]_vars

C7_Witness ==
    /\ handler = "on_delete"
    /\ args.dry_run
    /\ log[1].cmd = <<"sudo", "yabsnap", "delete", timestamp_list[value + 1], "--dry-run">>
    /\ ~CallFailed(log[1])
    /\ log[2].msg = <<"Snapshot deleted successfully", " (dry run)">>

\* ---------------------------------------------------------------------------
\* C8: when the listing at startup returns zero records, the session ends
\* without a form: no Confirm, delete, create or create-recovery is ever
\* handled, nothing but list-json is invoked, and the only output is the one
\* informational notice.
StartupListedZero ==
    /\ pc \notin {"main", "constructed"}
    /\ app_snapshots = <<>>

C8_EmptyShortCircuit ==
    StartupListedZero =>
        /\ pc = "Terminated"
        /\ handler = "onStart"
        /\ confirms = 0
        /\ timestamp_list = <<>> /\ values = <<>>
        /\ \A i \in DOMAIN log : IsList(log[i]) \/ IsNotify(log[i])
        /\ ~CallFailed(log[1]) /\ ~ListingFailed(log) =>
              log = <<log[1], Notify("Info", <<"No snapshots available for rollback.">>)>>

C8_Witness ==
    /\ pc = "Terminated"
    /\ app_snapshots = <<>>
    /\ IsList(log[1])
    /\ ~CallFailed(log[1])
    /\ Len(log) = 2
    /\ log[2].title = "Info"

\* ---------------------------------------------------------------------------
\* C9: a non-zero exit of any external call is shown to the user
\*   (as claimed)  with the captured stderr of the call, and the controller
\*                 still accepts input afterwards, a failed startup listing
\*                 excepted;
\*   (as amended)  with the captured stderr for list-json, rollback-gen,
\*                 delete, create and create-recovery, and with the text of
\*                 the CalledProcessError (no stderr) for the script; the
\*                 controller stays in Listing after a failed delete, create,
\*                 create-recovery or refresh listing, and is Terminated after
\*                 a failed rollback-gen or script run (on_ok always ends the
\*                 session) and after a failed startup listing; it never
\*                 crashes.
NonZero(e) ==
    \/ e.kind = "run" /\ ExitedNonZero(e)
    \/ e.kind = "exec" /\ e.returncode # 0

AtStartup == handler \in {"__init__", "onStart"}

\* C9 as claimed: the stderr of every non-zero exit is in a later
\* notification and the controller is still in Listing (startup excepted)
C9_StderrShownAndStillRunning ==
    \A i \in DOMAIN log :
        NonZero(log[i]) =>
            /\ \E j \in DOMAIN log : j > i /\ IsNotify(log[j]) /\ Contains(log[j].msg, log[i].stderr)
            /\ IF AtStartup THEN pc \in {"constructed", "Terminated"} ELSE pc = "Listing"

\* C9 as amended: every non-zero exit is followed at once by an error
\* notification (with the stderr, or for the script with the
\* CalledProcessError text); Listing after a key handler, Terminated after
\* on_ok and at startup
C9_FailureReported ==
    \A i \in DOMAIN log :
        NonZero(log[i]) =>
            /\ i < Len(log)
            /\ IsNotify(log[i + 1])
            /\ log[i + 1].title = "Error"
            /\ IF IsExec(log[i])
               THEN /\ log[i + 1].msg = <<"An error occurred during script execution: ",
                                          CalledProcessErrorText>>
                    /\ ~Contains(log[i + 1].msg, log[i].stderr)
               ELSE Contains(log[i + 1].msg, log[i].stderr)
            /\ pc # "Crashed"
            /\ handler \in KeyHandlers => pc = "Listing"
            /\ handler = "on_ok" => pc = "Terminated"
            /\ AtStartup => pc \in {"constructed", "Terminated"}

C9_Witness ==
    /\ handler = "on_create_recovery"
    /\ ExitedNonZero(log[1])
    /\ IsList(log[3])
    /\ ExitedNonZero(log[3])
    /\ pc = "Listing"

C11_CancelHasNoSideEffect ==
    [][(pc = "Listing" /\ handler' \in {"on_cancel", "handle_keys"})
          => /\ pc' = "Terminated"
             /\ log' = <<>>
             /\ file' = file
             /\ UNCHANGED <<app_snapshots, snapshots, unique_snapshots, timestamp_list,
                            values, value, confirms>>]_vars

C11_Witness ==
    /\ pc = "Terminated"
    /\ handler \in {"on_cancel", "handle_keys"}
    /\ log = <<>>
    /\ timestamp_list # <<>>

\* ---------------------------------------------------------------------------
\* C12: format_timestamp turns a well-formed YYYYMMDDHHMMSS into DD.MM.YY HH:MM
\* of the same digits, and raises on a 14-character string that is not all
\* digits.  Read off the one-record lists of SpecFormat: the row of the
\* record, or the ValueError that ends create().
\* strptime takes a space and a digit as the day: "202403 5143000" is shown
\* as "05.03.24 14:30".
Num2(c, i) == Digit(c[i]) * 10 + Digit(c[i + 1])
IsCanonical(c) ==
    /\ \A i \in 1..14 : IsDigit(c[i])
    /\ \E i \in 1..4 : c[i] # "0"
    /\ Num2(c, 5) \in 1..12
    /\ Num2(c, 7) \in 1..DaysIn(Num2(c, 5), Num2(c, 1) * 100 + Num2(c, 3))
    /\ Num2(c, 9) \in 0..23
    /\ Num2(c, 11) \in 0..59
    /\ Num2(c, 13) \in 0..59
Display(c) ==
    <<c[7], c[8], ".", c[5], c[6], ".", c[3], c[4], " ", c[9], c[10], ":", c[11], c[12]>>

OneRecordFormatted == handler = "onStart" /\ Len(app_snapshots) = 1

C12_FormatsOrRejects ==
    OneRecordFormatted =>
        LET c == Chars(app_snapshots[1].file.timestamp)
        IN  /\ IsCanonical(c) => (pc = "Listing" /\ values[1].readable_time = Display(c))
            /\ (\E i \in 1..14 : ~IsDigit(c[i])) => pc = "Crashed"

\* the half of C12 the code keeps: canonical timestamps are formatted
C12_CanonicalFormatted ==
    OneRecordFormatted =>
        LET c == Chars(app_snapshots[1].file.timestamp)
        IN  IsCanonical(c) => (pc = "Listing" /\ values[1].readable_time = Display(c))


\* ---------------------------------------------------------------------------
\* C13: after a delete whose refresh listing succeeded with zero records the
\* controller offers no selection or action surface any more; and whenever it
\* is in Listing, the catalog is non-empty and the highlighted index is within
\* its bounds.
\* on_delete stores the empty list in self.snapshots and leaves the form up
\* with the rows it had.
DeleteListedZero == handler = "on_delete" /\ ListingOk(log) /\ snapshots = <<>>

C13_EmptyAfterLastDelete ==
    /\ DeleteListedZero => pc # "Listing"
    /\ pc = "Listing" => /\ timestamp_list # <<>>
                         /\ value \in 0..(Len(timestamp_list) - 1)

\* ---------------------------------------------------------------------------
\* C14: after the refresh that follows a delete, create or create-recovery
\* action the highlighted index is 0.
\* value=[0] is given to the widget in create() only; no handler assigns it.
C14_IndexResetAfterRefresh == handler \in KeyHandlers => value = 0

\* C14, as the code has it: a delete, create or create-recovery action and its
\* refresh leave the highlighted index where it was.
C14_IndexKeptAcrossRefresh == [][handler' \in KeyHandlers => value' = value]_vars

C14_Witness == handler \in KeyHandlers /\ pc = "Listing" /\ value = 1


\* ---------------------------------------------------------------------------
\* C15: a record whose timestamp is not a canonical 14-digit timestamp is left
\* out of the catalog and reported; the form still comes up, without abnormal
\* termination, and lists the well-formed records.
\* format_timestamp raises ValueError inside update_snapshot_list and nothing
\* catches it.
Malformed(timestamp) == ~IsCanonical(Chars(timestamp))
MalformedRecords == {i \in DOMAIN app_snapshots : Malformed(TimestampAt(app_snapshots, i))}

C15_MalformedExcludedAndReported ==
    handler = "onStart" =>
        /\ pc # "Crashed"
        /\ \A i \in DOMAIN timestamp_list : ~Malformed(timestamp_list[i])
        /\ MalformedRecords # {} => \E j \in DOMAIN log : IsNotify(log[j])
        /\ \A i \in DOMAIN app_snapshots \ MalformedRecords :
               \E j \in DOMAIN timestamp_list :
                   timestamp_list[j] = TimestampAt(app_snapshots, i)

\* ---------------------------------------------------------------------------
\* C16: a listing call whose output has a line that does not parse returns no
\* record at all, not the lines that did parse, and shows an error; a listing
\* call whose lines all parse returns one record per line.
ListedRecords == IF handler \in KeyHandlers THEN snapshots ELSE app_snapshots
BadLines(e) == {k \in DOMAIN e.stdout : json_loads(e.stdout[k]).exc # ""}

C16_ListingAllOrNothing ==
    \A i \in DOMAIN log :
        (IsList(log[i]) /\ ~CallFailed(log[i])) =>
            IF BadLines(log[i]) = {}
            THEN /\ ListedRecords = [k \in DOMAIN log[i].stdout |-> log[i].stdout[k].json]
                 /\ (i = Len(log) \/ ~(IsNotify(log[i + 1]) /\ log[i + 1].title = "Error"))
            ELSE /\ ListedRecords = <<>>
                 /\ i < Len(log)
                 /\ IsNotify(log[i + 1])
                 /\ log[i + 1].title = "Error"

C16_Witness ==
    /\ handler \in KeyHandlers
    /\ \E i \in DOMAIN log :
          /\ IsList(log[i])
          /\ ~CallFailed(log[i])
          /\ BadLines(log[i]) # {}
          /\ Len(log[i].stdout) > 1
    /\ snapshots = <<>>


\* ---------------------------------------------------------------------------
\* C18: when the save of a Confirm succeeded, the file at the output path holds
\* exactly the script rollback-gen printed for the selected timestamp in that
\* Confirm, whatever it held before, and the path bash is run on is the path
\* that was written.
SelectedTimestamp == timestamp_list[value + 1]
SavedOk(e) == IsWrite(e) /\ e.outcome = "ok"

C18_SavedFileIsGeneratedScript ==
    handler = "on_ok" =>
        \A j \in DOMAIN log :
            SavedOk(log[j]) =>
                /\ IsGen(log[1])
                /\ log[1].cmd[3] = SelectedTimestamp
                /\ log[j].content = log[1].stdout
                /\ file = log[1].stdout
                /\ log[j].path = args.output
                /\ \A k \in DOMAIN log :
                       IsExec(log[k]) => /\ k > j
                                         /\ log[k].cmd = <<"bash", log[j].path>>
                                         /\ log[k].content = log[1].stdout

C18_Witness ==
    /\ handler = "on_ok"
    /\ \E j, k \in DOMAIN log : SavedOk(log[j]) /\ IsExec(log[k])
    /\ file = ScriptOf(T2)

\* ---------------------------------------------------------------------------
\* C19: the rows on screen and the index-to-timestamp mapping never diverge:
\* row i shows the timestamp at position i of timestamp_list, and the
\* timestamp given to delete or rollback-gen is the one the highlighted row
\* shows.
RowShows(i, timestamp) ==
    /\ i \in DOMAIN values
    /\ values[i].readable_time = Display(Chars(timestamp))

C19_RowsFollowTimestampList ==
    /\ pc \in {"Listing", "Terminated"} =>
          /\ Len(values) = Len(timestamp_list)
          /\ \A i \in DOMAIN timestamp_list : RowShows(i, timestamp_list[i])
    /\ (handler = "on_delete" /\ pc = "Listing") =>
          /\ IsMutating(log[1])
          /\ log[1].cmd[3] = "delete"
          /\ RowShows(value + 1, log[1].cmd[4])
    /\ handler = "on_ok" =>
          /\ IsGen(log[1])
          /\ RowShows(value + 1, log[1].cmd[3])

C19_Witness ==
    /\ handler = "on_delete"
    /\ pc = "Listing"
    /\ Len(timestamp_list) = 2
    /\ value = 1
    /\ log[1].cmd[4] = timestamp_list[2]

\* ---------------------------------------------------------------------------
\* C20: on Confirm the file is written and the prompt is shown exactly when
\* rollback-gen exited zero with non-empty output; when it exited zero with
\* empty output nothing is written, nothing is asked, nothing is notified and
\* the session ends.
Scripted(e) == ~CallFailed(e) /\ e.stdout # ""

C20_SavedAndAskedIffScript ==
    handler = "on_ok" =>
        /\ IsGen(log[1])
        /\ (\E j \in DOMAIN log : IsWrite(log[j])) <=> Scripted(log[1])
        /\ (\E j \in DOMAIN log : IsPrompt(log[j])) <=> Scripted(log[1])
        /\ (~CallFailed(log[1]) /\ log[1].stdout = "") =>
               /\ log = <<log[1]>>
               /\ pc = "Terminated"

C20_Witness ==
    /\ handler = "on_ok"
    /\ ~CallFailed(log[1])
    /\ log[1].stdout = ""
    /\ Len(log) = 1
    /\ pc = "Terminated"


\* ---------------------------------------------------------------------------
\* C17: at most one external invocation is in flight at any time, none is in
\* flight while the controller accepts input, and while one is in flight the
\* only thing that happens is its exit: the handler that started it goes on,
\* and no other event (a selection, a key, Confirm, Cancel) is taken.
InFlight == {i \in DOMAIN log : log[i].kind = "started"}
AcceptsInput == pc = "Listing"

C17_Serialized ==
    /\ [](/\ Cardinality(InFlight) <= 1
          /\ AcceptsInput => InFlight = {})
    /\ [][InFlight # {} =>
             LET i == Len(log)
             IN  /\ i \in InFlight
                 /\ Len(log') >= i
                 /\ SubSeq(log', 1, i - 1) = Front(log)
                 /\ log'[i].kind \in {"run", "exec"}
                 /\ log'[i].cmd = log[i].cmd
                 /\ value' = value
                 /\ handler' = handler]_vars

C17_Witness ==
    /\ handler \in KeyHandlers
    /\ pc = "wait list-json"
    /\ Len(log) = 3
    /\ InFlight = {3}
    /\ ~(log[1].kind = "started")

====
